---- MODULE Spec2Model ----
(***************************************************************************)
(* passport-dropbox-oauth2: the Dropbox strategy of                        *)
(* lib/passport-dropbox-oauth2/strategy.js as a state machine.             *)
(*                                                                         *)
(* One strategy is constructed from an options bag (Construct), then       *)
(* userProfile is called on it (UserProfile) and the transport of the      *)
(* OAuth2 engine completes the outstanding requests in any order           *)
(* (TransportCallback).                                                    *)
(***************************************************************************)
EXTENDS Integers, Sequences, FiniteSets, TLC

VARIABLES
  phase,        \* "new" | "constructed" | "threw": outcome of `new Strategy(options, verify)`
  optionsArg,   \* the options argument the caller passed (kept by the caller)
  options,      \* the options bag as the constructor left it
  thrown,       \* the exception the constructor raised, or Undef
  apiVersion,   \* this._apiVersion
  baseOptions,  \* the options OAuth2Strategy.call received, or Undef
  name,         \* this.name
  calls,        \* per userProfile call: its position, token and done callback
  requests,     \* the outbound requests handed to this._oauth2, in order
  responses,    \* per call: the (err, body) its transport callback received
  doneCalls,    \* per done callback: the invocations it received, in order
  parsed,       \* per call: whether the callback reached JSON.parse
  escaped       \* per call: the exception that left the transport callback

vars == <<phase, optionsArg, options, thrown, apiVersion, baseOptions, name,
          calls, requests, responses, doneCalls, parsed, escaped>>

(***************************************************************************)
(* Bounds.                                                                 *)
(***************************************************************************)
MaxCalls == 2

CallIds == 1..MaxCalls

(***************************************************************************)
(* JavaScript values.  Every value is a record tagged by t; the other      *)
(* field names differ per type, so values of different types are unequal.  *)
(***************************************************************************)
Undef == [t |-> "undefined"]

Null == [t |-> "null"]

Str(s) == [t |-> "string", s |-> s]

Num(n) == [t |-> "number", n |-> n]

Obj(f) == [t |-> "object", f |-> f]

Arr(a) == [t |-> "array", a |-> a]

EmptyObj == Obj(<<>>)

\* x != null : loose comparison, true for everything but null and undefined
NotNullish(x) == x.t \notin {"null", "undefined"}

\* ToBoolean, as the || operator applies it
Truthy(x) ==
  CASE x.t \in {"undefined", "null"} -> FALSE
    [] x.t = "string" -> x.s # ""
    [] x.t = "number" -> x.n # 0
    [] OTHER -> TRUE

\* a || b
Or(a, b) == IF Truthy(a) THEN a ELSE b

Digit == <<"0", "1", "2", "3", "4", "5", "6", "7", "8", "9">>

RECURSIVE NumberToString(_)
NumberToString(n) ==
  IF n < 10 THEN Digit[n + 1]
  ELSE NumberToString(n \div 10) \o Digit[(n % 10) + 1]

\* x.toString() for the non-nullish values an apiVersion may be
toString(x) ==
  CASE x.t = "string" -> x.s
    [] x.t = "number" -> NumberToString(x.n)
    [] OTHER -> "[object Object]"

\* a === b
StrictEquals(a, b) == a = b

\* obj[key] on an object value; undefined when the key is absent
Get(obj, key) ==
  IF obj.t = "object" /\ key \in DOMAIN obj.f THEN obj.f[key] ELSE Undef

\* whether a property read on x raises a TypeError
GetThrows(x) == x.t \in {"null", "undefined"}

(***************************************************************************)
(* The constructor.                                                        *)
(***************************************************************************)
supportedApiVersions == <<"1", "2">>

V1Defaults ==
  [authorizationURL |-> Str("https://www.dropbox.com/1/oauth2/authorize"),
   tokenURL |-> Str("https://api.dropbox.com/1/oauth2/token"),
   scopeSeparator |-> Str(","),
   customHeaders |-> EmptyObj]

V2Defaults ==
  [authorizationURL |-> Str("https://www.dropbox.com/oauth2/authorize"),
   tokenURL |-> Str("https://api.dropbox.com/oauth2/token"),
   scopeSeparator |-> Str(","),
   customHeaders |-> Obj("Content-Type" :> Str("application/json"))]

defaultOptionsWithoutHeaders(v) ==
  IF toString(v) = "1" THEN V1Defaults
  ELSE [V2Defaults EXCEPT !.customHeaders = EmptyObj]

\* defaultOptionsByApiVersion[v]: the property key is the string form of v
defaultOptionsByApiVersion(v) ==
  IF toString(v) = "1" THEN V1Defaults ELSE V2Defaults

\* supportedApiVersions.indexOf(s) === -1
NotSupported(s) == \A k \in DOMAIN supportedApiVersions : supportedApiVersions[k] # s

UnsupportedTruthyOnly(o) ==
  Truthy(o.apiVersion) /\ NotSupported(toString(o.apiVersion))

\* the guard of line 65
Unsupported(o) ==
  NotNullish(o.apiVersion) /\ NotSupported(toString(o.apiVersion))

ConfigurationError ==
  [t |-> "Error",
   message |-> "Unsupported Dropbox API version. Supported versions are \"1\" and \"2\"."]

\* options = options || {} : an absent bag is a fresh empty object
NoOptions ==
  [apiVersion |-> Undef, authorizationURL |-> Undef, tokenURL |-> Undef,
   scopeSeparator |-> Undef, customHeaders |-> Undef]

OptionsOrEmpty(arg) == IF arg = Undef THEN NoOptions ELSE arg

\* this._apiVersion = options.apiVersion || '1'
ResolveApiVersion(o) == Or(o.apiVersion, Str("1"))

\* lines 71-75: each option keeps its value when truthy, else takes the default
FillDefaults(o, v) ==
  [o EXCEPT
     !.authorizationURL = Or(o.authorizationURL, defaultOptionsByApiVersion(v).authorizationURL),
     !.tokenURL = Or(o.tokenURL, defaultOptionsByApiVersion(v).tokenURL),
     !.scopeSeparator = Or(o.scopeSeparator, defaultOptionsByApiVersion(v).scopeSeparator),
     !.customHeaders = Or(o.customHeaders, defaultOptionsByApiVersion(v).customHeaders)]

\* The whole of `new Strategy(arg, verify)`
Strategy(arg) ==
  LET o == OptionsOrEmpty(arg) IN
  IF Unsupported(o)
  THEN [threw |-> TRUE, thrown |-> ConfigurationError, options |-> o,
        apiVersion |-> Undef, baseOptions |-> Undef, name |-> Undef]
  ELSE LET v == ResolveApiVersion(o)
           filled == FillDefaults(o, v)
       IN [threw |-> FALSE, thrown |-> Undef, options |-> filled,
           apiVersion |-> v, baseOptions |-> filled, name |-> Str("dropbox-oauth2")]

(***************************************************************************)
(* The profile request.                                                    *)
(***************************************************************************)
\* this._oauth2.buildAuthHeader(accessToken) of the OAuth2 engine
buildAuthHeader(accessToken) == "Bearer " \o accessToken

GetRequest(accessToken) ==
  [primitive |-> "get", method |-> "GET",
   url |-> "https://api.dropbox.com/1/account/info",
   headers |-> {}, body |-> Undef, accessToken |-> accessToken]

PostRequest(accessToken) ==
  [primitive |-> "_request", method |-> "POST",
   url |-> "https://api.dropboxapi.com/2/users/get_current_account",
   headers |-> {<<"Authorization", buildAuthHeader(accessToken)>>},
   body |-> Str("null"), accessToken |-> accessToken]

\* _retrieveUserProfile: the requests it hands to this._oauth2
retrieveUserProfile(v, accessToken) ==
  IF StrictEquals(v, Str("1")) THEN <<GetRequest(accessToken)>>
  ELSE IF StrictEquals(v, Str("2")) THEN <<PostRequest(accessToken)>>
  ELSE <<>>

(***************************************************************************)
(* The response bodies the transport may deliver, and JSON.parse on them.  *)
(***************************************************************************)
BodyV1 ==
  "{\"uid\":\"42\",\"display_name\":\"A B\",\"name_details\":{\"surname\":\"B\",\"given_name\":\"A\"},\"email\":\"a@b.com\"}"

BodyV1Bare == "{\"name_details\":{},\"name\":{}}"

BodyV2 ==
  "{\"account_id\":\"acc1\",\"name\":{\"display_name\":\"A B\",\"surname\":\"B\",\"given_name\":\"A\"},\"email\":\"a@b.com\"}"

BodyEmptyObject == "{}"

BodyNull == "null"

BodyNumber == "7"

BodyArray == "[]"

BodyMalformed == "<html>Bad Gateway</html>"

Bodies ==
  {Str(BodyV1), Str(BodyV1Bare), Str(BodyV2), Str(BodyEmptyObject), Str(BodyNull),
   Str(BodyNumber), Str(BodyArray), Str(BodyMalformed), Undef}

SyntaxError == [t |-> "SyntaxError"]

TypeError == [t |-> "TypeError"]

Parsed(value) == [ok |-> TRUE, value |-> value, exception |-> Undef]

\* JSON.parse(body): the value, or the SyntaxError it raises
JSONParse(body) ==
  IF body.t # "string" THEN [ok |-> FALSE, value |-> Undef, exception |-> SyntaxError]
  ELSE CASE body.s = BodyV1 ->
              Parsed(Obj([uid |-> Str("42"), display_name |-> Str("A B"),
                          name_details |-> Obj([surname |-> Str("B"), given_name |-> Str("A")]),
                          email |-> Str("a@b.com")]))
         [] body.s = BodyV1Bare ->
              Parsed(Obj([name_details |-> EmptyObj, name |-> EmptyObj]))
         [] body.s = BodyV2 ->
              Parsed(Obj([account_id |-> Str("acc1"),
                          name |-> Obj([display_name |-> Str("A B"), surname |-> Str("B"),
                                        given_name |-> Str("A")]),
                          email |-> Str("a@b.com")]))
         [] body.s = BodyEmptyObject -> Parsed(EmptyObj)
         [] body.s = BodyNull -> Parsed(Null)
         [] body.s = BodyNumber -> Parsed(Num(7))
         [] body.s = BodyArray -> Parsed(Arr(<<>>))
         [] OTHER -> [ok |-> FALSE, value |-> Undef, exception |-> SyntaxError]

(***************************************************************************)
(* The transport callback of userProfile.                                  *)
(***************************************************************************)
InternalOAuthError(message, err) ==
  [t |-> "InternalOAuthError", message |-> message, oauthError |-> err]

FailedToFetchUnwrapped(err) == err

\* new InternalOAuthError('failed to fetch user profile', err)
FailedToFetch(err) == InternalOAuthError("failed to fetch user profile", err)

Built(profile) == [threw |-> FALSE, exception |-> Undef, profile |-> profile]

Raised(e) == [threw |-> TRUE, exception |-> e, profile |-> Undef]

ProfileV1(json, body) ==
  [provider |-> Str("dropbox"),
   id |-> Get(json, "uid"),
   displayName |-> Get(json, "display_name"),
   name |-> [familyName |-> Get(Get(json, "name_details"), "surname"),
             givenName |-> Get(Get(json, "name_details"), "given_name"),
             middleName |-> Str("")],
   emails |-> <<[value |-> Get(json, "email")]>>,
   _raw |-> body,
   _json |-> json]

ProfileV2(json, body) ==
  [provider |-> Str("dropbox"),
   id |-> Get(json, "account_id"),
   displayName |-> Get(Get(json, "name"), "display_name"),
   name |-> [familyName |-> Get(Get(json, "name"), "surname"),
             givenName |-> Get(Get(json, "name"), "given_name"),
             middleName |-> Str("")],
   emails |-> <<[value |-> Get(json, "email")]>>,
   _raw |-> body,
   _json |-> json]

ProfileBare(json, body) ==
  [provider |-> Str("dropbox"), _raw |-> body, _json |-> json]

\* the callback without .bind(this): this._apiVersion reads undefined in it
normalizeUnbound(v, json, body) == Built(ProfileBare(json, body))

\* lines 126-150: the profile built from the parsed payload, or the TypeError
\* a property read on null or undefined raises
normalize(v, json, body) ==
  IF StrictEquals(v, Str("1"))
  THEN IF GetThrows(json) \/ GetThrows(Get(json, "name_details"))
       THEN Raised(TypeError)
       ELSE Built(ProfileV1(json, body))
  ELSE IF StrictEquals(v, Str("2"))
  THEN IF GetThrows(json) \/ GetThrows(Get(json, "name"))
       THEN Raised(TypeError)
       ELSE Built(ProfileV2(json, body))
  ELSE Built(ProfileBare(json, body))

\* what the caller's done callback does when invoked
DoneBehaviours == {"returns", "throws"}

DoneException == [t |-> "Error", message |-> "raised by done"]

DoneInvocation(err, profile) == [err |-> err, profile |-> profile]

Outcome(invocations, didParse, exception) ==
  [invocations |-> invocations, parsed |-> didParse, escaped |-> exception]

\* lines 120-156: the invocations of done the callback makes on (err, body),
\* whether it reached JSON.parse, and the exception that leaves it
callback(v, err, body, behaviour) ==
  LET failing == DoneInvocation(FailedToFetch(err), Undef)
      leaves == IF behaviour = "throws" THEN DoneException ELSE Undef
      p == JSONParse(body)
      n == normalize(v, p.value, body)
  IN IF Truthy(err) THEN Outcome(<<failing>>, FALSE, leaves)
     ELSE IF ~p.ok THEN Outcome(<<DoneInvocation(p.exception, Undef)>>, TRUE, leaves)
     ELSE IF n.threw THEN Outcome(<<DoneInvocation(n.exception, Undef)>>, TRUE, leaves)
     ELSE IF behaviour = "throws"
     THEN Outcome(<<DoneInvocation(Null, n.profile), DoneInvocation(DoneException, Undef)>>,
                  TRUE, DoneException)
     ELSE Outcome(<<DoneInvocation(Null, n.profile)>>, TRUE, Undef)

(***************************************************************************)
(* Inputs.                                                                 *)
(***************************************************************************)
ApiVersions ==
  {Undef, Null, Str("1"), Str("2"), Str("3"), Str(""),
   Num(1), Num(2), Num(3), Num(0)}

AuthorizationURLs == {Undef, Str("https://example.test/authorize")}

TokenURLs == {Undef, Str("https://example.test/token")}

ScopeSeparators == {Undef, Str(" "), Str("")}

CustomHeaders == {Undef, Obj("X-Custom" :> Str("yes"))}

AllBags ==
  [apiVersion : ApiVersions, authorizationURL : AuthorizationURLs, tokenURL : TokenURLs,
   scopeSeparator : ScopeSeparators, customHeaders : CustomHeaders]

OptionsSet(o) == {f \in DOMAIN o \ {"apiVersion"} : o[f] # Undef}

\* Lines 71-75 fill each option on its own: the bags set none of the four
\* options, one of them, or all of them.
OptionBags == {o \in AllBags : Cardinality(OptionsSet(o)) \in {0, 1, 4}}

OptionsArgs == OptionBags \cup {Undef}

AccessTokenOf(i) == "token" \o Digit[i + 1]

TransportError == [t |-> "Error", message |-> "ECONNRESET"]

\* the (err, body) pairs the engine's transport passes to its callback
Responses ==
  {[err |-> Null, body |-> b] : b \in Bodies}
    \cup {[err |-> TransportError, body |-> b] : b \in {Undef, Str(BodyV1)}}

NoResponse == [err |-> Undef, body |-> Undef]

IdleCall == [state |-> "idle", accessToken |-> "", done |-> "returns"]

(***************************************************************************)
(* The state machine.                                                      *)
(***************************************************************************)
Init ==
  /\ phase = "new"
  /\ optionsArg = Undef
  /\ options = Undef
  /\ thrown = Undef
  /\ apiVersion = Undef
  /\ baseOptions = Undef
  /\ name = Undef
  /\ calls = [i \in CallIds |-> IdleCall]
  /\ requests = <<>>
  /\ responses = [i \in CallIds |-> NoResponse]
  /\ doneCalls = [i \in CallIds |-> <<>>]
  /\ parsed = [i \in CallIds |-> FALSE]
  /\ escaped = [i \in CallIds |-> Undef]

\* new Strategy(arg, verify)
Construct ==
  /\ phase = "new"
  /\ \E arg \in OptionsArgs :
       LET r == Strategy(arg) IN
         /\ phase' = IF r.threw THEN "threw" ELSE "constructed"
         /\ optionsArg' = arg
         /\ options' = r.options
         /\ thrown' = r.thrown
         /\ apiVersion' = r.apiVersion
         /\ baseOptions' = r.baseOptions
         /\ name' = r.name
  /\ UNCHANGED <<calls, requests, responses, doneCalls, parsed, escaped>>

\* the done callback the closure of call i invokes: the one passed to that call
DoneShared(i) == 1

DoneTarget(i) == i

\* strategy.userProfile(accessToken, done), up to its return
UserProfile(i) ==
  /\ phase = "constructed"
  /\ calls[i].state = "idle"
  /\ \A j \in CallIds : j < i => calls[j].state # "idle"
  /\ \E behaviour \in DoneBehaviours :
       calls' = [calls EXCEPT ![i] = [state |-> "returned",
                                      accessToken |-> AccessTokenOf(i),
                                      done |-> behaviour]]
  /\ requests' = requests \o
       [k \in DOMAIN retrieveUserProfile(apiVersion, AccessTokenOf(i)) |->
          [call |-> i, request |-> retrieveUserProfile(apiVersion, AccessTokenOf(i))[k]]]
  /\ UNCHANGED <<phase, optionsArg, options, thrown, apiVersion, baseOptions, name,
                 responses, doneCalls, parsed, escaped>>

RequestsOf(i) == {k \in DOMAIN requests : requests[k].call = i}

InFlight(i) == calls[i].state = "returned" /\ RequestsOf(i) # {}

\* the transport completes the request of call i and runs its callback
TransportCallback(i) ==
  /\ InFlight(i)
  /\ \E resp \in Responses :
       LET o == callback(apiVersion, resp.err, resp.body, calls[i].done) IN
         /\ responses' = [responses EXCEPT ![i] = resp]
         /\ doneCalls' = [doneCalls EXCEPT ![DoneTarget(i)] = @ \o o.invocations]
         /\ parsed' = [parsed EXCEPT ![i] = o.parsed]
         /\ escaped' = [escaped EXCEPT ![i] = o.escaped]
  /\ calls' = [calls EXCEPT ![i].state = "completed"]
  /\ UNCHANGED <<phase, optionsArg, options, thrown, apiVersion, baseOptions, name, requests>>

Next ==
  \/ Construct
  \/ \E i \in CallIds : UserProfile(i)
  \/ \E i \in CallIds : TransportCallback(i)

Spec == Init /\ [][Next]_vars

\* the engine's transport completes every request it was handed
FairSpec == Spec /\ \A i \in CallIds : WF_vars(TransportCallback(i))

(***************************************************************************)
(* Properties.                                                             *)
(***************************************************************************)
Completed(i) == calls[i].state = "completed"

Invocations(i) == {doneCalls[i][k] : k \in DOMAIN doneCalls[i]}

\* C1: every userProfile call on an accepted strategy eventually invokes its
\* done callback at least once, whatever the transport outcome.
C1_DoneEventuallyInvoked ==
  \A i \in CallIds : (calls[i].state # "idle") ~> (Len(doneCalls[i]) >= 1)

\* C2: for one transport completion, done is invoked at most once and never
\* with both an error and a profile, also when done itself raises.
C2_DoneAtMostOnce ==
  \A i \in CallIds :
    /\ Len(doneCalls[i]) <= 1
    /\ \A d \in Invocations(i) : d.err = Null \/ d.profile = Undef

\* C3: a non-null apiVersion whose string form is neither "1" nor "2" makes
\* construction throw the configuration error, with the options bag
\* unmodified, the base constructor not called and no request ever issued.
C3_UnsupportedVersionThrowsEarly ==
  (/\ phase # "new"
   /\ optionsArg # Undef
   /\ NotNullish(optionsArg.apiVersion)
   /\ toString(optionsArg.apiVersion) \notin {"1", "2"})
  => /\ phase = "threw"
     /\ thrown = ConfigurationError
     /\ options = optionsArg
     /\ baseOptions = Undef
     /\ apiVersion = Undef
     /\ name = Undef
     /\ requests = <<>>
     /\ \A i \in CallIds : calls[i].state = "idle"

C3_Witness ==
  /\ phase = "threw"
  /\ optionsArg.apiVersion = Str("")
  /\ optionsArg.scopeSeparator = Undef

\* C4: a transport error reaches done as InternalOAuthError("failed to fetch
\* user profile") with that error as its cause and the body is never parsed;
\* a body that is not valid JSON reaches done as the raw parse exception; in
\* both cases done receives no profile.
C4_ErrorKindsDistinct ==
  \A i \in CallIds : Completed(i) =>
    /\ responses[i].err # Null =>
         /\ doneCalls[i] =
              <<[err |-> [t |-> "InternalOAuthError",
                          message |-> "failed to fetch user profile",
                          oauthError |-> responses[i].err],
                 profile |-> Undef]>>
         /\ ~parsed[i]
    /\ (responses[i].err = Null /\ ~JSONParse(responses[i].body).ok) =>
         /\ doneCalls[i] = <<[err |-> SyntaxError, profile |-> Undef]>>
         /\ parsed[i]

C4_Witness ==
  \E i, j \in CallIds :
    /\ Completed(i) /\ responses[i] = [err |-> TransportError, body |-> Str(BodyV1)]
    /\ Completed(j) /\ responses[j] = [err |-> Null, body |-> Str(BodyMalformed)]

\* C5: a transport success whose body parses as JSON (any JSON value) is
\* reported as success: done gets a null error and a profile, never an error.
\* Stated for a done callback that returns normally.
C5_ValidJsonIsSuccess ==
  \A i \in CallIds :
    (/\ Completed(i)
     /\ calls[i].done = "returns"
     /\ responses[i].err = Null
     /\ JSONParse(responses[i].body).ok)
    => /\ Len(doneCalls[i]) >= 1
       /\ \A d \in Invocations(i) : d.err = Null /\ d.profile # Undef

\* C6: every profile delivered with a null error has provider "dropbox",
\* middleName "", one emails entry holding the payload's email, _raw the body
\* received and _json the parsed payload, and id, displayName, familyName and
\* givenName taken from the fields of the strategy's version; none lacks id,
\* displayName, name or emails.
C6_ProfileShape ==
  \A i \in CallIds : \A d \in Invocations(i) : d.err = Null =>
    LET p == d.profile
        json == JSONParse(responses[i].body).value
    IN /\ p # Undef
       /\ {"provider", "id", "displayName", "name", "emails", "_raw", "_json"} = DOMAIN p
       /\ p.provider = Str("dropbox")
       /\ p.name.middleName = Str("")
       /\ Len(p.emails) = 1
       /\ p.emails[1].value = Get(json, "email")
       /\ p._raw = responses[i].body
       /\ JSONParse(responses[i].body).ok
       /\ p._json = json
       /\ toString(apiVersion) \in {"1", "2"}
       /\ toString(apiVersion) = "1" =>
            /\ p.id = Get(json, "uid")
            /\ p.displayName = Get(json, "display_name")
            /\ p.name.familyName = Get(Get(json, "name_details"), "surname")
            /\ p.name.givenName = Get(Get(json, "name_details"), "given_name")
       /\ toString(apiVersion) = "2" =>
            /\ p.id = Get(json, "account_id")
            /\ p.displayName = Get(Get(json, "name"), "display_name")
            /\ p.name.familyName = Get(Get(json, "name"), "surname")
            /\ p.name.givenName = Get(Get(json, "name"), "given_name")

C6_Witness ==
  \E i \in CallIds :
    /\ apiVersion = Str("2")
    /\ responses[i] = [err |-> Null, body |-> Str(BodyV2)]
    /\ Len(doneCalls[i]) >= 1
    /\ doneCalls[i][1].err = Null
    /\ doneCalls[i][1].profile.id = Str("acc1")
    /\ doneCalls[i][1].profile.displayName = Str("A B")

NoneSet(o) ==
  /\ o.authorizationURL = Undef
  /\ o.tokenURL = Undef
  /\ o.scopeSeparator = Undef
  /\ o.customHeaders = Undef

Handed(o, auth, token, sep, headers) ==
  /\ o.authorizationURL = Str(auth)
  /\ o.tokenURL = Str(token)
  /\ o.scopeSeparator = Str(sep)
  /\ o.customHeaders = Obj(headers)

\* C7: when the bag sets none of authorizationURL, tokenURL, scopeSeparator,
\* customHeaders, the base engine receives exactly the default entry of the
\* resolved version: v1 for apiVersion unset, null or 1, v2 for apiVersion 2.
C7_DefaultsOfResolvedVersion ==
  (phase = "constructed" /\ NoneSet(OptionsOrEmpty(optionsArg))) =>
    LET given == OptionsOrEmpty(optionsArg).apiVersion IN
      /\ ~NotNullish(given) => apiVersion = Str("1")
      /\ (~NotNullish(given) \/ toString(given) = "1") =>
           Handed(baseOptions, "https://www.dropbox.com/1/oauth2/authorize",
                  "https://api.dropbox.com/1/oauth2/token", ",", <<>>)
      /\ (NotNullish(given) /\ toString(given) = "2") =>
           Handed(baseOptions, "https://www.dropbox.com/oauth2/authorize",
                  "https://api.dropbox.com/oauth2/token", ",",
                  "Content-Type" :> Str("application/json"))

C7_Witness ==
  /\ phase = "constructed"
  /\ optionsArg # Undef
  /\ NoneSet(optionsArg)
  /\ optionsArg.apiVersion = Str("2")
  /\ baseOptions.customHeaders = Obj("Content-Type" :> Str("application/json"))

OptionNames == {"authorizationURL", "tokenURL", "scopeSeparator", "customHeaders"}

\* C8: for each of authorizationURL, tokenURL, scopeSeparator, customHeaders
\* and every value the caller set for it (the empty string as scope separator
\* included), the base engine receives the caller's value, not the default.
C8_CallerValuesKept ==
  (phase = "constructed" /\ optionsArg # Undef) =>
    \A f \in OptionNames : optionsArg[f] # Undef => baseOptions[f] = optionsArg[f]

\* C9: each userProfile call on a constructed strategy issues exactly one
\* request: for version 1 the token-authenticated GET of account/info, for
\* version 2 the POST of users/get_current_account with body "null" and an
\* Authorization header built from the access token.
C9_OneRequestPerCall ==
  \A i \in CallIds : calls[i].state # "idle" =>
    /\ Cardinality(RequestsOf(i)) = 1
    /\ \A k \in RequestsOf(i) :
         LET r == requests[k].request IN
           /\ r.accessToken = calls[i].accessToken
           /\ toString(apiVersion) = "1" =>
                /\ r.primitive = "get"
                /\ r.method = "GET"
                /\ r.url = "https://api.dropbox.com/1/account/info"
           /\ toString(apiVersion) = "2" =>
                /\ r.method = "POST"
                /\ r.url = "https://api.dropboxapi.com/2/users/get_current_account"
                /\ r.body = Str("null")
                /\ r.headers = {<<"Authorization", buildAuthHeader(calls[i].accessToken)>>}

Profiles(i) == {d.profile : d \in {e \in Invocations(i) : e.err = Null}}

OwnOutcome ==
  \A i \in CallIds :
    /\ ~Completed(i) => doneCalls[i] = <<>>
    /\ Completed(i) => doneCalls[i] # <<>>
    /\ \A d \in Invocations(i) :
         /\ d.err = Null =>
              /\ d.profile._raw = responses[i].body
              /\ d.profile._json = JSONParse(responses[i].body).value
         /\ d.err.t = "InternalOAuthError" => d.err.oauthError = responses[i].err
         /\ d.err.t \in {"SyntaxError", "TypeError"} => responses[i].err = Null
    /\ \A j \in CallIds :
         responses[i] = responses[j] => Profiles(i) = Profiles(j)

Settled ==
  /\ phase = "constructed" => apiVersion' = apiVersion
  /\ \A i \in CallIds : Completed(i) =>
       /\ doneCalls'[i] = doneCalls[i]
       /\ responses'[i] = responses[i]

\* C10: with several userProfile calls in flight and responses arriving in
\* any order, each done callback receives the outcome built from its own
\* response only, no call changes the strategy's apiVersion or the outcome of
\* another call, and fetches that receive the same body yield equal profiles.
C10_CallsIndependent == []OwnOutcome /\ [][Settled]_vars

C10_Witness ==
  /\ InFlight(1)
  /\ doneCalls[1] = <<>>
  /\ Completed(2)
  /\ Profiles(2) # {}

====
